---- MODULE Spec2Model ----
(***************************************************************************)
(* SkipSlicer (src/skip-slicer-v4.py): validate_columns, process_files,    *)
(* get_phone_data, create_roor_record and create_readymode_record as a     *)
(* state machine over two input tables (DirectSkip contacts, Land Portal   *)
(* parcels).  A table is a sequence of column names plus a sequence of     *)
(* rows; a row is a function from column name to cell.  A cell is one of   *)
(*   NaN            a null cell (float nan),                               *)
(*   S(s)           a Python str,                                          *)
(*   I(n)           a Python/numpy int,                                    *)
(*   F(neg,ip,fp)   a float  (-1)^neg * ip.fp  (fp the fractional digits), *)
(*   None           what Series.get returns for an absent label.           *)
(* Strings are TLA+ strings; strip, lower, isdigit, int() and str() are    *)
(* computed character by character.                                        *)
(***************************************************************************)
EXTENDS Integers, Sequences, FiniteSets, TLC

\* dsCols, dsRows: the columns and rows of df_directskip
\* lpCols, lpRows: the columns and rows of df_landportal
\* pc: the position of main / process_files
\* merged_df: row k is <<i, j>>, contact row i joined to parcel row j
\* phone_data: get_phone_data(merged_df)
\* idx: the index of the projection loop (line 238), counted from 1
\* result: what process_files returned to main, if it returned
VARIABLES
    dsCols,
    dsRows,
    lpCols,
    lpRows,
    pc,
    validation_errors,
    total_mobile_phones,
    total_residential_phones,
    merged_df,
    phone_data,
    idx,
    roor_records,
    readymode_records,
    result

vars == <<dsCols, dsRows, lpCols, lpRows, pc, validation_errors,
          total_mobile_phones, total_residential_phones, merged_df,
          phone_data, idx, roor_records, readymode_records, result>>

----------------------------------------------------------------------------
(* Cells *)

NaN == [t |-> "nan"]
None == [t |-> "none"]
S(s) == [t |-> "str", s |-> s]
I(n) == [t |-> "int", n |-> n]
F(neg, ip, fp) == [t |-> "float", neg |-> neg, ip |-> ip, fp |-> fp]

\* pd.notna(v)
notna(v) == v.t \notin {"nan", "none"}

\* v != ''
NotEmptyStr(v) == ~(v.t = "str" /\ v.s = "")

----------------------------------------------------------------------------
(* Python string primitives *)

Ch(s, i) == SubSeq(s, i, i)

\* the whitespace str.strip() removes, as far as the cells of the model go
Whitespace == {" ", "\t", "\n", "\r"}
Digits == <<"0", "1", "2", "3", "4", "5", "6", "7", "8", "9">>
DigitSet == {Digits[i] : i \in 1..10}
DigitVal(c) == (CHOOSE i \in 1..10 : Digits[i] = c) - 1

Upper == <<"A", "B", "C", "D", "E", "F", "G", "H", "I", "J", "K", "L", "M",
           "N", "O", "P", "Q", "R", "S", "T", "U", "V", "W", "X", "Y", "Z">>
LowerOf == <<"a", "b", "c", "d", "e", "f", "g", "h", "i", "j", "k", "l", "m",
             "n", "o", "p", "q", "r", "s", "t", "u", "v", "w", "x", "y", "z">>

LowerCh(c) ==
    IF \E i \in 1..26 : Upper[i] = c
    THEN LowerOf[CHOOSE i \in 1..26 : Upper[i] = c]
    ELSE c

RECURSIVE lower(_)
\* str.lower()
lower(s) == IF s = "" THEN "" ELSE LowerCh(Head(s)) \o lower(Tail(s))

RECURSIVE lstrip(_)
lstrip(s) ==
    IF s = "" THEN ""
    ELSE IF Head(s) \in Whitespace THEN lstrip(Tail(s)) ELSE s

RECURSIVE rstrip(_)
rstrip(s) ==
    IF s = "" THEN ""
    ELSE IF Ch(s, Len(s)) \in Whitespace
         THEN rstrip(SubSeq(s, 1, Len(s) - 1))
         ELSE s

\* str.strip()
strip(s) == rstrip(lstrip(s))

\* str.isdigit()
isdigit(s) == s # "" /\ \A i \in 1..Len(s) : Ch(s, i) \in DigitSet

\* str.startswith(p)
startswith(s, p) == Len(s) >= Len(p) /\ SubSeq(s, 1, Len(p)) = p

RECURSIVE DigitsToNat(_)
DigitsToNat(s) ==
    IF s = "" THEN 0
    ELSE 10 * DigitsToNat(SubSeq(s, 1, Len(s) - 1)) + DigitVal(Ch(s, Len(s)))

RECURSIVE NatToDigits(_)
NatToDigits(n) ==
    IF n < 10 THEN Digits[n + 1]
    ELSE NatToDigits(n \div 10) \o Digits[(n % 10) + 1]

\* str(n) of an int
IntToStr(n) == IF n < 0 THEN "-" \o NatToDigits(0 - n) ELSE NatToDigits(n)

----------------------------------------------------------------------------
(* Python conversions.  A conversion that raises is [ok |-> FALSE]. *)

Raise == [ok |-> FALSE]
Ok(n) == [ok |-> TRUE, n |-> n]

\* int(s) of a str: surrounding whitespace and one sign are allowed, the rest
\* must be decimal digits; anything else (a ".", a letter, "") is ValueError.
\* (Digit-group underscores and non-ASCII digits are not in the model's cells.)
IntOfStr(s) ==
    LET u == strip(s)
        signed == u # "" /\ Head(u) \in {"+", "-"}
        d == IF signed THEN Tail(u) ELSE u
    IN  IF isdigit(d)
        THEN Ok(IF signed /\ Head(u) = "-" THEN 0 - DigitsToNat(d)
                ELSE DigitsToNat(d))
        ELSE Raise

\* int(v): identity on an int, truncation toward zero on a float.
PyInt(v) ==
    CASE v.t = "int" -> Ok(v.n)
      [] v.t = "float" -> Ok(IF v.neg THEN 0 - v.ip ELSE v.ip)
      [] v.t = "str" -> IntOfStr(v.s)
      [] OTHER -> Raise

\* str(v) / f"{v}"
PyStr(v) ==
    CASE v.t = "str" -> v.s
      [] v.t = "int" -> IntToStr(v.n)
      [] v.t = "float" ->
            (IF v.neg THEN "-" ELSE "") \o NatToDigits(v.ip) \o "." \o v.fp
      [] v.t = "nan" -> "nan"
      [] OTHER -> "None"

\* str(int(float(s))) for s a string produced by str(int(.)): float(s) is
\* exact for |s| < 2^53, which covers every number of the model.
StrIntFloat(s) == IntToStr(IntOfStr(s).n)

----------------------------------------------------------------------------
(* Column names *)

KeyL == "Input Custom Field 1"
KeyR == "propertyID"

directskip_required == <<KeyL, "Matched First Name", "Matched Last Name">>

landportal_required ==
    <<KeyR, "Latitude", "Longitude", "Hyperlink", "Parcel Full Address",
      "Parcel City", "Parcel State", "Parcel Zip", "APN", "Parcel County",
      "Calc Acreage">>

NumPhones == 7

\* f"Phone{i}" and f"Phone{i} Type"
PhoneCol(i) == "Phone" \o IntToStr(i)
PhoneTypeCol(i) == PhoneCol(i) \o " Type"

Range(seq) == {seq[i] : i \in 1..Len(seq)}

\* [f(x) for x in seq if x in keep], as a sequence
RECURSIVE SelectNotIn(_, _)
SelectNotIn(seq, have) ==
    IF seq = <<>> THEN <<>>
    ELSE (IF Head(seq) \in have THEN <<>> ELSE <<Head(seq)>>)
         \o SelectNotIn(Tail(seq), have)

\* Series.get(label, default)
Get(row, label, default) ==
    IF label \in DOMAIN row THEN row[label] ELSE default

----------------------------------------------------------------------------
(* validate_columns *)

\* col.startswith('Phone') and col[5:].isdigit()
IsPhoneCol(col) ==
    startswith(col, "Phone") /\ isdigit(SubSeq(col, 6, Len(col)))

MissingError(file, col) == file \o " file missing column: '" \o col \o "'"

NoPhoneError ==
    "DirectSkip file missing phone number columns (Phone1, Phone2, etc.)"

\* validate_columns returning at the first missing column
validate_columnsEarlyExit(dcols, lcols) ==
    LET dmiss == SelectNotIn(directskip_required, Range(dcols))
        lmiss == SelectNotIn(landportal_required, Range(lcols))
        phone_cols == {c \in Range(dcols) : IsPhoneCol(c)}
        all == [i \in 1..Len(dmiss) |-> MissingError("DirectSkip", dmiss[i])]
               \o [i \in 1..Len(lmiss) |-> MissingError("Land Portal", lmiss[i])]
               \o (IF phone_cols = {} THEN <<NoPhoneError>> ELSE <<>>)
    IN  IF all = <<>> THEN <<>> ELSE <<Head(all)>>

validate_columns(dcols, lcols) ==
    LET dmiss == SelectNotIn(directskip_required, Range(dcols))
        lmiss == SelectNotIn(landportal_required, Range(lcols))
        phone_cols == {c \in Range(dcols) : IsPhoneCol(c)}
    IN  [i \in 1..Len(dmiss) |-> MissingError("DirectSkip", dmiss[i])]
        \o [i \in 1..Len(lmiss) |-> MissingError("Land Portal", lmiss[i])]
        \o (IF phone_cols = {} THEN <<NoPhoneError>> ELSE <<>>)

----------------------------------------------------------------------------
(* Phone classification, shared by the counting loop (lines 205-220) and   *)
(* get_phone_data (lines 164-187)                                          *)

\* PhoneType without the strip() of lines 177 / 212
PhoneTypeNoStrip(row, i) ==
    LET v == Get(row, PhoneTypeCol(i), S(""))
    IN  IF notna(v) THEN PyStr(v) ELSE ""

\* phone_type after lines 173-179 / 208-214
PhoneType(row, i) ==
    LET v == Get(row, PhoneTypeCol(i), S(""))
    IN  IF notna(v) THEN strip(PyStr(v)) ELSE ""

PhoneNum(row, i) == Get(row, PhoneCol(i), None)

\* the test of lines 181-184 / 216-219 for kind "mobile" or "residential"
IsKind(row, i, kind) ==
    /\ notna(PhoneNum(row, i))
    /\ NotEmptyStr(PhoneNum(row, i))
    /\ lower(PhoneType(row, i)) = kind

\* the counting loop over one row
RECURSIVE CountKind(_, _, _)
CountKind(row, i, kind) ==
    IF i > NumPhones THEN 0
    ELSE (IF IsKind(row, i, kind) THEN 1 ELSE 0) + CountKind(row, i + 1, kind)

RECURSIVE SumKind(_, _)
SumKind(rows, kind) ==
    IF rows = <<>> THEN 0
    ELSE CountKind(Head(rows), 1, kind) + SumKind(Tail(rows), kind)

\* phones[kind] of one row: str(int(phone_num)) appended for i = 1..7
RECURSIVE PhoneList(_, _, _)
PhoneList(row, i, kind) ==
    IF i > NumPhones THEN <<>>
    ELSE (IF IsKind(row, i, kind)
          THEN <<IntToStr(PyInt(PhoneNum(row, i)).n)>>
          ELSE <<>>)
         \o PhoneList(row, i + 1, kind)

\* int(phone_num) raises for some accepted phone of the row
RowRaises(row) ==
    \E i \in 1..NumPhones :
        /\ IsKind(row, i, "mobile") \/ IsKind(row, i, "residential")
        /\ ~PyInt(PhoneNum(row, i)).ok

get_phone_row(row) ==
    [mobile |-> PhoneList(row, 1, "mobile"),
     residential |-> PhoneList(row, 1, "residential")]

----------------------------------------------------------------------------
(* pd.merge(df_directskip, df_landportal, left_on=KeyL, right_on=KeyR,     *)
(* how='inner')                                                            *)

\* Two key cells land in the same join group: equal values, and, as pandas
\* documents for merge, a null key matches a null key.
KeyMatch(a, b) == IF notna(a) /\ notna(b) THEN a = b ELSE ~notna(a) /\ ~notna(b)

\* A column name present in both frames gets the suffixes _x (left), _y (right).
LeftName(c, drow, lrow) == IF c \in DOMAIN lrow THEN c \o "_x" ELSE c
RightName(c, drow, lrow) == IF c \in DOMAIN drow THEN c \o "_y" ELSE c

\* one row of merged_df
MergedRow(drow, lrow) ==
    LET both == DOMAIN drow \cap DOMAIN lrow
        lnames == {LeftName(c, drow, lrow) : c \in DOMAIN drow}
        rnames == {RightName(c, drow, lrow) : c \in DOMAIN lrow}
    IN  [n \in lnames \cup rnames |->
            IF n \in DOMAIN drow \ both THEN drow[n]
            ELSE IF n \in DOMAIN lrow \ both THEN lrow[n]
            ELSE IF n \in lnames THEN drow[SubSeq(n, 1, Len(n) - 2)]
            ELSE lrow[SubSeq(n, 1, Len(n) - 2)]]

\* the matches of contact row i, in parcel row order
RECURSIVE MatchesOf(_, _, _, _)
MatchesOf(i, j, drows, lrows) ==
    IF j > Len(lrows) THEN <<>>
    ELSE (IF KeyMatch(drows[i][KeyL], lrows[j][KeyR]) THEN <<<<i, j>>>> ELSE <<>>)
         \o MatchesOf(i, j + 1, drows, lrows)

\* The inner join as the sequence of <<contact position, parcel position>>:
\* the order of the left keys is preserved (how='inner', sort=False).
RECURSIVE MergePairs(_, _, _)
MergePairs(i, drows, lrows) ==
    IF i > Len(drows) THEN <<>>
    ELSE MatchesOf(i, 1, drows, lrows) \o MergePairs(i + 1, drows, lrows)

\* row k of merged_df
MRow(k) == MergedRow(dsRows[merged_df[k][1]], lpRows[merged_df[k][2]])

----------------------------------------------------------------------------
(* Output records: a dict is a sequence of [k, v] in insertion order *)

Keys(rec) == [i \in 1..Len(rec) |-> rec[i].k]
HasKey(rec, k) == \E i \in 1..Len(rec) : rec[i].k = k
Field(rec, k) == rec[CHOOSE i \in 1..Len(rec) : rec[i].k = k].v

\* record[k] = v : an existing key keeps its position and takes the new value
DictSet(rec, k, v) ==
    IF HasKey(rec, k)
    THEN [i \in 1..Len(rec) |-> IF rec[i].k = k THEN [k |-> k, v |-> v] ELSE rec[i]]
    ELSE Append(rec, [k |-> k, v |-> v])

\* str(int(float(phones[n]))) if len(phones) > n and phones[n] != '' else ''
PhoneSlot(phones, n) ==
    IF Len(phones) >= n /\ phones[n] # "" THEN S(StrIntFloat(phones[n])) ELSE S("")

create_roor_record(row, mobile_phones) ==
    <<[k |-> "FirstName", v |-> Get(row, "Matched First Name", S(""))],
      [k |-> "LastName", v |-> Get(row, "Matched Last Name", S(""))],
      [k |-> "Email", v |-> Get(row, "Hyperlink", S(""))],
      [k |-> "PropertyAddress", v |-> Get(row, "Parcel Full Address", S(""))],
      [k |-> "PropertyCity", v |-> Get(row, "Parcel City", S(""))],
      [k |-> "PropertyState", v |-> Get(row, "Parcel State", S(""))],
      [k |-> "PropertyZip", v |-> Get(row, "Parcel Zip", S(""))],
      [k |-> "Phone1", v |-> PhoneSlot(mobile_phones, 1)],
      [k |-> "Phone2", v |-> PhoneSlot(mobile_phones, 2)],
      [k |-> "Phone3", v |-> PhoneSlot(mobile_phones, 3)],
      [k |-> "APN", v |-> Get(row, "APN", S(""))],
      [k |-> "PropertyCounty", v |-> Get(row, "Parcel County", S(""))],
      [k |-> "Acreage", v |-> Get(row, "Calc Acreage", S(""))]>>

MapsPrefix == "http://maps.google.com/maps?z=16&t=m&q="

\* lines 300-306
GoogleMapsURL(row) ==
    LET lat == Get(row, "Latitude", S(""))
        lon == Get(row, "Longitude", S(""))
    IN  IF notna(lat) /\ notna(lon) /\ NotEmptyStr(lat) /\ NotEmptyStr(lon)
        THEN S(MapsPrefix \o PyStr(lat) \o "," \o PyStr(lon))
        ELSE S("")

\* lines 309-310
RECURSIVE AddColumns(_, _, _)
AddColumns(rec, row, cols) ==
    IF cols = <<>> THEN rec
    ELSE AddColumns(DictSet(rec, Head(cols), Get(row, Head(cols), S(""))),
                    row, Tail(cols))

create_readymode_record(row, residential_phones, landportal_columns) ==
    LET phones4 == [i \in 1..4 |->
                       [k |-> PhoneCol(i), v |-> PhoneSlot(residential_phones, i)]]
        withUrl == DictSet(phones4, "Google Maps URL", GoogleMapsURL(row))
    IN  AddColumns(withUrl, row, landportal_columns)

----------------------------------------------------------------------------
(* main (lines 51-61) and process_files (lines 191-266), step by step *)

NoResult == [returned |-> FALSE]

\* Validate without the return of line 57
ValidateNoReturn ==
    /\ pc = "validate"
    /\ validation_errors' = validate_columns(dsCols, lpCols)
    /\ pc' = "count"
    /\ UNCHANGED <<dsCols, dsRows, lpCols, lpRows, total_mobile_phones,
                   total_residential_phones, merged_df, phone_data, idx,
                   roor_records, readymode_records, result>>

\* lines 52-57: validate, and return when there is any error
Validate ==
    /\ pc = "validate"
    /\ validation_errors' = validate_columns(dsCols, lpCols)
    /\ pc' = IF validation_errors' # <<>> THEN "halted" ELSE "count"
    /\ UNCHANGED <<dsCols, dsRows, lpCols, lpRows, total_mobile_phones,
                   total_residential_phones, merged_df, phone_data, idx,
                   roor_records, readymode_records, result>>

\* CountPhones iterating over the merged rows instead of df_directskip
CountPhonesMerged ==
    /\ pc = "count"
    /\ LET mp == MergePairs(1, dsRows, lpRows)
           rows == [k \in 1..Len(mp) |-> dsRows[mp[k][1]]]
       IN  /\ total_mobile_phones' = SumKind(rows, "mobile")
           /\ total_residential_phones' = SumKind(rows, "residential")
    /\ pc' = "merge"
    /\ UNCHANGED <<dsCols, dsRows, lpCols, lpRows, validation_errors, merged_df,
                   phone_data, idx, roor_records, readymode_records, result>>

\* lines 194-220: the phone totals over df_directskip
CountPhones ==
    /\ pc = "count"
    /\ total_mobile_phones' = SumKind(dsRows, "mobile")
    /\ total_residential_phones' = SumKind(dsRows, "residential")
    /\ pc' = "merge"
    /\ UNCHANGED <<dsCols, dsRows, lpCols, lpRows, validation_errors, merged_df,
                   phone_data, idx, roor_records, readymode_records, result>>

\* lines 223-229
Merge ==
    /\ pc = "merge"
    /\ merged_df' = MergePairs(1, dsRows, lpRows)
    /\ pc' = "extract"
    /\ UNCHANGED <<dsCols, dsRows, lpCols, lpRows, validation_errors,
                   total_mobile_phones, total_residential_phones, phone_data,
                   idx, roor_records, readymode_records, result>>

\* line 232: get_phone_data(merged_df); a ValueError of int() leaves
\* process_files and is caught by main (lines 132-134)
GetPhoneData ==
    /\ pc = "extract"
    /\ IF \E k \in 1..Len(merged_df) : RowRaises(MRow(k))
       THEN /\ pc' = "failed"
            /\ UNCHANGED phone_data
       ELSE /\ phone_data' = [k \in 1..Len(merged_df) |-> get_phone_row(MRow(k))]
            /\ pc' = "project"
    /\ UNCHANGED <<dsCols, dsRows, lpCols, lpRows, validation_errors,
                   total_mobile_phones, total_residential_phones, merged_df,
                   idx, roor_records, readymode_records, result>>

\* ProjectRow with "elif" at line 247: no ReadyMode record for a row that has
\* a mobile phone
ProjectRowElif ==
    /\ pc = "project"
    /\ idx <= Len(merged_df)
    /\ LET phones == phone_data[idx]
           row == MRow(idx)
       IN  /\ roor_records' =
                 IF phones.mobile # <<>>
                 THEN Append(roor_records, create_roor_record(row, phones.mobile))
                 ELSE roor_records
           /\ readymode_records' =
                 IF phones.mobile = <<>> /\ phones.residential # <<>>
                 THEN Append(readymode_records,
                             create_readymode_record(row, phones.residential, lpCols))
                 ELSE readymode_records
    /\ idx' = idx + 1
    /\ UNCHANGED <<dsCols, dsRows, lpCols, lpRows, pc, validation_errors,
                   total_mobile_phones, total_residential_phones, merged_df,
                   phone_data, result>>

\* lines 238-249: one iteration of the projection loop (idx counts from 1)
ProjectRow ==
    /\ pc = "project"
    /\ idx <= Len(merged_df)
    /\ LET phones == phone_data[idx]
           row == MRow(idx)
       IN  /\ roor_records' =
                 IF phones.mobile # <<>>
                 THEN Append(roor_records, create_roor_record(row, phones.mobile))
                 ELSE roor_records
           /\ readymode_records' =
                 IF phones.residential # <<>>
                 THEN Append(readymode_records,
                             create_readymode_record(row, phones.residential, lpCols))
                 ELSE readymode_records
    /\ idx' = idx + 1
    /\ UNCHANGED <<dsCols, dsRows, lpCols, lpRows, pc, validation_errors,
                   total_mobile_phones, total_residential_phones, merged_df,
                   phone_data, result>>

\* lines 252-266: both tables and the statistics are returned together
Finish ==
    /\ pc = "project"
    /\ idx > Len(merged_df)
    /\ result' = [returned |-> TRUE,
                  roor_df |-> roor_records,
                  readymode_df |-> readymode_records,
                  stats |-> [directskip_records |-> Len(dsRows),
                             landportal_records |-> Len(lpRows),
                             total_merged |-> Len(merged_df),
                             total_mobile_phones |-> total_mobile_phones,
                             total_residential_phones |-> total_residential_phones,
                             roor_count |-> Len(roor_records),
                             readymode_count |-> Len(readymode_records)]]
    /\ pc' = "done"
    /\ UNCHANGED <<dsCols, dsRows, lpCols, lpRows, validation_errors,
                   total_mobile_phones, total_residential_phones, merged_df,
                   phone_data, idx, roor_records, readymode_records>>

Next == Validate \/ CountPhones \/ Merge \/ GetPhoneData \/ ProjectRow \/ Finish

\* the state of main before line 52, for given input tables
Start(dc, dr, lc, lr) ==
    /\ dsCols = dc
    /\ dsRows = dr
    /\ lpCols = lc
    /\ lpRows = lr
    /\ pc = "validate"
    /\ validation_errors = <<>>
    /\ total_mobile_phones = 0
    /\ total_residential_phones = 0
    /\ merged_df = <<>>
    /\ phone_data = <<>>
    /\ idx = 1
    /\ roor_records = <<>>
    /\ readymode_records = <<>>
    /\ result = NoResult

----------------------------------------------------------------------------
(* Input tables *)

MaxContactRows == 2
MaxParcelRows == 2

\* Phone1, Phone1 Type, ..., Phone7, Phone7 Type
PhoneColsSeq ==
    [n \in 1..(2 * NumPhones) |->
        IF n % 2 = 1 THEN PhoneCol((n + 1) \div 2) ELSE PhoneTypeCol(n \div 2)]

StdDsCols == directskip_required \o PhoneColsSeq
StdLpCols == landportal_required

Pair(num, ty) == [num |-> num, ty |-> ty]
NoPhone == Pair(NaN, NaN)

\* the seven (number, type) pairs of a row, from the pairs given for some indices
PhonesFrom(f) == [i \in 1..NumPhones |-> IF i \in DOMAIN f THEN f[i] ELSE NoPhone]

\* a contact row over the columns cols
DsRow(cols, key, first, phones) ==
    [c \in Range(cols) |->
        CASE c = KeyL -> key
          [] c = "Matched First Name" -> first
          [] \E i \in 1..NumPhones : c = PhoneCol(i) ->
                phones[CHOOSE i \in 1..NumPhones : c = PhoneCol(i)].num
          [] \E i \in 1..NumPhones : c = PhoneTypeCol(i) ->
                phones[CHOOSE i \in 1..NumPhones : c = PhoneTypeCol(i)].ty
          [] OTHER -> S("ds " \o c)]

\* a parcel row over the columns cols
LpRow(cols, key, lat, lon, acreage) ==
    [c \in Range(cols) |->
        CASE c = KeyR -> key
          [] c = "Latitude" -> lat
          [] c = "Longitude" -> lon
          [] c = "Calc Acreage" -> acreage
          [] OTHER -> S("lp " \o c)]

SeqsUpTo(set, n) == UNION {[1..m -> set] : m \in 0..n}

Lat1 == F(FALSE, 34, "05")
Lon1 == F(TRUE, 118, "25")
Acre1 == F(FALSE, 1, "5")

KeyCells == {S("P1"), S("P2"), NaN}

Profiles ==
    { PhonesFrom(<<>>),
      PhonesFrom(1 :> Pair(I(5551), S("Mobile"))),
      PhonesFrom(2 :> Pair(F(FALSE, 5552, "0"), S(" residential "))),
      PhonesFrom((1 :> Pair(I(5551), S("MOBILE")))
                 @@ (3 :> Pair(I(5553), S("Residential")))
                 @@ (4 :> Pair(S("5554"), S("mobile")))),
      PhonesFrom(1 :> Pair(S("n/a"), S("Mobile"))) }

ContactRows == {DsRow(StdDsCols, k, S("Ann"), p) : k \in KeyCells, p \in Profiles}
ParcelKeyCells == {S("P1"), NaN}
ParcelRows == {LpRow(StdLpCols, k, Lat1, Lon1, Acre1) : k \in ParcelKeyCells}

\* one run over a schema the validator rejects
BadSchemaStart ==
    Start(directskip_required,
          <<DsRow(directskip_required, S("P1"), S("Ann"), PhonesFrom(<<>>))>>,
          Tail(StdLpCols),
          <<LpRow(Tail(StdLpCols), S("P1"), Lat1, Lon1, Acre1)>>)

Init ==
    \/ \E dr \in SeqsUpTo(ContactRows, MaxContactRows),
          lr \in SeqsUpTo(ParcelRows, MaxParcelRows) :
            Start(StdDsCols, dr, StdLpCols, lr)
    \/ BadSchemaStart

Spec == Init /\ [][Next]_vars

TypeOK ==
    /\ pc \in {"validate", "halted", "count", "merge", "extract", "failed",
               "project", "done"}
    /\ idx \in 1..(Len(merged_df) + 1)
    /\ total_mobile_phones \in Nat
    /\ total_residential_phones \in Nat

----------------------------------------------------------------------------
(* Properties of the pipeline over whole tables (Spec) *)

\* the positions k < n of merged_df whose phone list of the given kind is
\* non-empty, ascending
RECURSIVE RowsWith(_, _, _)
RowsWith(kind, k, n) ==
    IF k >= n THEN <<>>
    ELSE (IF phone_data[k][kind] # <<>> THEN <<k>> ELSE <<>>)
         \o RowsWith(kind, k + 1, n)

\* C1: every joined row processed so far has given exactly one RooR record
\* if its mobile list is non-empty and none otherwise, and exactly one
\* ReadyMode record if its residential list is non-empty and none otherwise
\* (a row with both is in both outputs, a row with neither in none); the
\* returned roor_count and readymode_count are at most total_merged.
C1_OneRecordPerRowAndKind ==
    /\ pc \in {"project", "done"} =>
          LET m == RowsWith("mobile", 1, idx)
              r == RowsWith("residential", 1, idx)
          IN  /\ Len(roor_records) = Len(m)
              /\ \A n \in 1..Len(m) :
                    roor_records[n] =
                        create_roor_record(MRow(m[n]), phone_data[m[n]].mobile)
              /\ Len(readymode_records) = Len(r)
              /\ \A n \in 1..Len(r) :
                    readymode_records[n] =
                        create_readymode_record(MRow(r[n]),
                                                phone_data[r[n]].residential, lpCols)
    /\ pc = "done" =>
          /\ idx = Len(merged_df) + 1
          /\ result.roor_df = roor_records
          /\ result.readymode_df = readymode_records
          /\ result.stats.roor_count <= result.stats.total_merged
          /\ result.stats.readymode_count <= result.stats.total_merged

\* a finished run with a joined row in both outputs and a joined row in neither
C1_Witness ==
    /\ pc = "done"
    /\ \E k \in 1..Len(merged_df) :
          phone_data[k].mobile # <<>> /\ phone_data[k].residential # <<>>
    /\ \E k \in 1..Len(merged_df) :
          phone_data[k].mobile = <<>> /\ phone_data[k].residential = <<>>
    /\ Len(roor_records) = 1
    /\ Len(readymode_records) = 1

\* C6: when the validator reports an error for the input tables the run stops
\* at the validation: nothing is counted, joined, extracted or projected and
\* nothing is returned; a run returns either nothing (halted or failed) or the
\* two tables together with the statistics.
C6_FailFastAndBothOrNeither ==
    /\ validate_columns(dsCols, lpCols) # <<>> =>
          /\ pc \in {"validate", "halted"}
          /\ total_mobile_phones = 0
          /\ total_residential_phones = 0
          /\ merged_df = <<>>
          /\ phone_data = <<>>
          /\ idx = 1
          /\ roor_records = <<>>
          /\ readymode_records = <<>>
          /\ result = NoResult
    /\ pc = "halted" => validation_errors = validate_columns(dsCols, lpCols)
    /\ pc # "done" => result = NoResult
    /\ pc = "done" =>
          /\ validation_errors = <<>>
          /\ DOMAIN result = {"returned", "roor_df", "readymode_df", "stats"}
          /\ result.roor_df = roor_records
          /\ result.readymode_df = readymode_records

\* a run halted by the validator
C6_Witness ==
    /\ pc = "halted"
    /\ validation_errors # <<>>
    /\ dsRows # <<>>
    /\ lpRows # <<>>
    /\ result = NoResult

\* C8 as the claim words it: the number cell exists, is not null and not
\* empty, and the type, trimmed and lower-cased, is the kind
Counted(row, i, kind) ==
    /\ PhoneCol(i) \in DOMAIN row
    /\ row[PhoneCol(i)].t \notin {"nan", "none"}
    /\ row[PhoneCol(i)] # S("")
    /\ PhoneTypeCol(i) \in DOMAIN row
    /\ row[PhoneTypeCol(i)].t \notin {"nan", "none"}
    /\ lower(strip(PyStr(row[PhoneTypeCol(i)]))) = kind

Occurrences(kind) ==
    Cardinality({p \in (1..Len(dsRows)) \X (1..NumPhones) :
                    Counted(dsRows[p[1]], p[2], kind)})

\* C8: the returned statistics count the mobile and residential phones over
\* all (contact row, phone index) pairs of the contact table, whatever the
\* join; the record counts are the table lengths.
C8_Statistics ==
    pc = "done" =>
        /\ result.stats.total_mobile_phones = Occurrences("mobile")
        /\ result.stats.total_residential_phones = Occurrences("residential")
        /\ result.stats.directskip_records = Len(dsRows)
        /\ result.stats.landportal_records = Len(lpRows)
        /\ result.stats.total_merged = Len(merged_df)
        /\ result.stats.roor_count = Len(result.roor_df)
        /\ result.stats.readymode_count = Len(result.readymode_df)

\* a finished run with a contact row joined to no parcel and a contact row
\* joined to two parcels, each with a mobile phone
C8_Witness ==
    /\ pc = "done"
    /\ \E i \in 1..Len(dsRows) :
          /\ Counted(dsRows[i], 1, "mobile")
          /\ \A k \in 1..Len(merged_df) : merged_df[k][1] # i
    /\ \E i \in 1..Len(dsRows) :
          /\ Counted(dsRows[i], 1, "mobile")
          /\ Cardinality({k \in 1..Len(merged_df) : merged_df[k][1] = i}) = 2
    /\ result.stats.total_mobile_phones = 2

\* contact key == parcel key, as values compare (a null key equals nothing)
KeyEq(a, b) == notna(a) /\ notna(b) /\ a = b

PairLess(p, q) == p[1] < q[1] \/ (p[1] = q[1] /\ p[2] < q[2])

\* C9: merged_df holds exactly the pairs (contact row, parcel row) with equal
\* join keys, each once, in contact row order and then parcel row order.
C9_InnerJoin ==
    pc \in {"extract", "failed", "project", "done"} =>
        /\ \A i \in 1..Len(dsRows), j \in 1..Len(lpRows) :
              KeyEq(dsRows[i][KeyL], lpRows[j][KeyR])
                  <=> (\E k \in 1..Len(merged_df) : merged_df[k] = <<i, j>>)
        /\ \A k \in 1..Len(merged_df) :
              /\ merged_df[k][1] \in 1..Len(dsRows)
              /\ merged_df[k][2] \in 1..Len(lpRows)
        /\ \A k, l \in 1..Len(merged_df) :
              k < l => PairLess(merged_df[k], merged_df[l])

\* the same, with the null keys left aside
C9_JoinOfNonNullKeys ==
    pc \in {"extract", "failed", "project", "done"} =>
        /\ \A i \in 1..Len(dsRows), j \in 1..Len(lpRows) :
              notna(dsRows[i][KeyL]) \/ notna(lpRows[j][KeyR]) =>
                 (KeyEq(dsRows[i][KeyL], lpRows[j][KeyR])
                     <=> (\E k \in 1..Len(merged_df) : merged_df[k] = <<i, j>>))
        /\ \A k, l \in 1..Len(merged_df) :
              k < l => PairLess(merged_df[k], merged_df[l])

----------------------------------------------------------------------------
(* Column sets for the validator (SpecCols) *)

MaxMissing == 1

\* columns a contact file may carry besides the three required ones
PhoneLike == <<"Phone1", "Phone1 Type", "Phone0", "Phone10", "PhoneType1", "Phone">>

ContactColumnSets ==
    {SelectNotIn(directskip_required, d) \o SelectNotIn(PhoneLike, p) :
        d \in SUBSET Range(directskip_required), p \in SUBSET Range(PhoneLike)}

ParcelColumnSets ==
    {SelectNotIn(landportal_required, m) :
        m \in {x \in SUBSET Range(landportal_required) : Cardinality(x) <= MaxMissing}}

InitCols ==
    \E dc \in ContactColumnSets, lc \in ParcelColumnSets,
       ph \in {Pair(I(5551), S("Mobile")), Pair(S("n/a"), S("Residential"))} :
        Start(dc, <<DsRow(dc, S("P1"), S("Ann"), PhonesFrom(1 :> ph))>>,
              lc, <<LpRow(lc, S("P1"), Lat1, Lon1, Acre1)>>)

SpecCols == InitCols /\ [][Next]_vars

\* "Phone" followed by one or more decimal digits and nothing else
PhoneDigitsName(c) ==
    /\ Len(c) > 5
    /\ SubSeq(c, 1, 5) = "Phone"
    /\ \A i \in 6..Len(c) : Ch(c, i) \in DigitSet

\* "Phone" followed by a positive integer and nothing else
PhonePositiveName(c) ==
    /\ PhoneDigitsName(c)
    /\ \E i \in 6..Len(c) : Ch(c, i) # "0"

MissingDs == Range(directskip_required) \ Range(dsCols)
MissingLp == Range(landportal_required) \ Range(lpCols)

\* one separate error per missing required column, all of them in one call
AllMissingReported ==
    /\ \A c \in MissingDs : \E n \in 1..Len(validation_errors) :
          validation_errors[n] = "DirectSkip file missing column: '" \o c \o "'"
    /\ \A c \in MissingLp : \E n \in 1..Len(validation_errors) :
          validation_errors[n] = "Land Portal file missing column: '" \o c \o "'"

\* C5 (as amended): the validator's list is empty iff the contact columns hold
\* the three required columns and a column "Phone" + one or more digits (zero
\* allowed, as in Phone0) and the parcel columns hold the eleven required
\* ones; otherwise it holds one error per missing required column of either
\* table plus one error when there is no such phone column.
C5_ValidatorDigits ==
    pc # "validate" =>
        /\ validation_errors = <<>> <=>
              /\ MissingDs = {}
              /\ MissingLp = {}
              /\ \E c \in Range(dsCols) : PhoneDigitsName(c)
        /\ AllMissingReported
        /\ Len(validation_errors) =
              Cardinality(MissingDs) + Cardinality(MissingLp)
              + (IF \E c \in Range(dsCols) : PhoneDigitsName(c) THEN 0 ELSE 1)

\* a halted run with a missing column in each table and no phone column, all
\* three reported at once
C5_Witness ==
    /\ pc = "halted"
    /\ MissingDs # {}
    /\ MissingLp # {}
    /\ ~\E c \in Range(dsCols) : PhoneDigitsName(c)
    /\ Len(validation_errors) >= 3

\* C5 (as stated): ... and at least one column "Phone" + positive integer ...
C5_ValidatorPositive ==
    pc # "validate" =>
        /\ validation_errors = <<>> <=>
              /\ MissingDs = {}
              /\ MissingLp = {}
              /\ \E c \in Range(dsCols) : PhonePositiveName(c)
        /\ AllMissingReported
        /\ Len(validation_errors) =
              Cardinality(MissingDs) + Cardinality(MissingLp)
              + (IF \E c \in Range(dsCols) : PhonePositiveName(c) THEN 0 ELSE 1)

----------------------------------------------------------------------------
(* One contact row with all seven phone pairs, joined to one parcel        *)
(* (SpecPhones)                                                            *)

\* The two pairs a phone index may hold besides the empty one, in eight
\* families of cell types and type spellings; the number of index i is 5550 + i.
PairOptions(v, i) ==
    CASE v = 1 -> <<Pair(I(5550 + i), S("Mobile")),
                    Pair(I(5550 + i), S("Residential"))>>
      [] v = 2 -> <<Pair(F(FALSE, 5550 + i, "0"), S(" MOBILE ")),
                    Pair(F(TRUE, 5550 + i, "75"), S("RESIDENTIAL "))>>
      [] v = 3 -> <<Pair(S("00" \o IntToStr(5550 + i)), S("mobile")),
                    Pair(S(" " \o IntToStr(5550 + i) \o " "), S("  residential"))>>
      [] v = 4 -> <<Pair(I(5550 + i), S("mObIlE")),
                    Pair(I(5550 + i), S("Other"))>>
      [] v = 5 -> <<Pair(S(""), S("Mobile")),
                    Pair(NaN, S("Residential"))>>
      [] v = 6 -> <<Pair(I(5550 + i), I(1)),
                    Pair(S("n/a"), S("Landline"))>>
      [] v = 7 -> <<Pair(S(IntToStr(5550 + i) \o ".0"), S("Residential")),
                    Pair(I(5550 + i), S("Mobile"))>>
      [] OTHER -> <<Pair(S("n/a"), S("Mobile")),
                    Pair(F(FALSE, 5550 + i, "5"), S("residential"))>>

Families == 1..8

\* the contact columns of a file without Phone7 and without "Phone6 Type"
ShortDsCols == SelectNotIn(StdDsCols, {"Phone7", "Phone6 Type"})

\* the row whose index i holds option choice[i] of family v (0: no phone)
PhonesOf(v, choice) ==
    [i \in 1..NumPhones |->
        IF choice[i] = 0 THEN NoPhone ELSE PairOptions(v, i)[choice[i]]]

InitPhones ==
    \/ \E v \in Families, choice \in [1..NumPhones -> 0..2] :
          Start(StdDsCols,
                <<DsRow(StdDsCols, S("P1"), S("Ann"), PhonesOf(v, choice))>>,
                StdLpCols,
                <<LpRow(StdLpCols, S("P1"), Lat1, Lon1, Acre1)>>)
    \/ \E choice \in [1..NumPhones -> 0..2] :
          Start(ShortDsCols,
                <<DsRow(ShortDsCols, S("P1"), S("Ann"), PhonesOf(1, choice))>>,
                StdLpCols,
                <<LpRow(StdLpCols, S("P1"), Lat1, Lon1, Acre1)>>)
    \/ BadSchemaStart

SpecPhones == InitPhones /\ [][Next]_vars

\* the value a number cell stands for, truncated toward zero
Truncated(v) ==
    CASE v.t = "int" -> v.n
      [] v.t = "float" -> IF v.neg THEN 0 - v.ip ELSE v.ip
      [] OTHER -> IntOfStr(v.s).n

\* the n-th smallest element of a set of numbers
Nth(set, n) == CHOOSE x \in set : Cardinality({y \in set : y < x}) = n - 1

\* the list the claim describes for one row and kind: one entry per accepted
\* phone index, ascending, each an integer-valued string of the truncated
\* number
ListAsClaimed(list, row, kind) ==
    LET acc == {i \in 1..NumPhones : Counted(row, i, kind)}
    IN  /\ Len(list) = Cardinality(acc)
        /\ \A n \in 1..Len(list) :
              /\ isdigit(IF Head(list[n]) = "-" THEN Tail(list[n]) ELSE list[n])
              /\ IntOfStr(list[n]) = Ok(Truncated(row[PhoneCol(Nth(acc, n))]))
              /\ Len(list[n]) = 1 \/ Head(list[n]) # "0"

----------------------------------------------------------------------------
(* One contact row joined to one parcel row, with varied cells and extra   *)
(* columns (SpecFields)                                                    *)

\* columns a parcel file may carry besides the eleven required ones
ExtraParcelCols == <<"Zoning", "Phone1", "Matched First Name", "Google Maps URL">>

\* columns a contact file may carry besides the standard ones
ExtraContactCols == <<"Latitude">>

RECURSIVE Reverse(_)
Reverse(seq) == IF seq = <<>> THEN <<>> ELSE Append(Reverse(Tail(seq)), Head(seq))

ParcelColumnOrders ==
    {landportal_required \o SelectNotIn(ExtraParcelCols, x) :
        x \in SUBSET Range(ExtraParcelCols)}
    \cup {Reverse(landportal_required \o SelectNotIn(ExtraParcelCols, x)) :
             x \in SUBSET Range(ExtraParcelCols)}

ContactColumnOrders ==
    {StdDsCols \o SelectNotIn(ExtraContactCols, x) : x \in SUBSET Range(ExtraContactCols)}

\* <<latitude, longitude>>
Coordinates ==
    {<<Lat1, Lon1>>, <<NaN, Lon1>>, <<Lat1, NaN>>, <<S(""), Lon1>>,
     <<I(40), F(TRUE, 74, "0")>>}

\* <<first name, acreage>>
NameAndAcreage == {<<S("Ann"), Acre1>>, <<NaN, Acre1>>, <<S(""), NaN>>}

FieldProfiles ==
    { PhonesFrom((5 :> Pair(I(5555), S("Mobile"))) @@ (7 :> Pair(I(5557), S("Mobile")))),
      PhonesFrom([i \in 1..4 |-> Pair(I(5550 + i), S("Mobile"))]),
      PhonesFrom([i \in 1..6 |-> Pair(F(FALSE, 5550 + i, "0"),
                                      IF i = 6 THEN S("Mobile") ELSE S("Residential"))]),
      PhonesFrom(2 :> Pair(I(5552), S("Residential"))),
      PhonesFrom(3 :> Pair(S("555-0003"), S("Residential"))) }

InitFields ==
    \/ \E dc \in ContactColumnOrders, lc \in ParcelColumnOrders,
          ll \in Coordinates, na \in NameAndAcreage, ph \in FieldProfiles :
            Start(dc, <<DsRow(dc, S("P1"), na[1], ph)>>,
                  lc, <<LpRow(lc, S("P1"), ll[1], ll[2], na[2])>>)
    \/ BadSchemaStart

SpecFields == InitFields /\ [][Next]_vars

\* the position in merged_df of the row behind the n-th record of a kind
RowOf(kind, n) == RowsWith(kind, 1, idx)[n]

\* C3: in every ReadyMode record the fields after Phone1-Phone4 and the
\* Google Maps URL are the parcel table's columns, in its column order, each
\* with the parcel row's own value; the four phone fields keep the first
\* residential numbers.
C3_ParcelPassThrough ==
    pc \in {"project", "done"} =>
        \A n \in 1..Len(readymode_records) :
            LET rec == readymode_records[n]
                k == RowOf("residential", n)
                parcel == lpRows[merged_df[k][2]]
            IN  /\ Len(rec) = 5 + Len(lpCols)
                /\ \A c \in 1..Len(lpCols) :
                      /\ rec[5 + c].k = lpCols[c]
                      /\ rec[5 + c].v = parcel[lpCols[c]]
                /\ \A q \in 1..4 :
                      /\ rec[q].k = PhoneCol(q)
                      /\ rec[q].v = PhoneSlot(phone_data[k].residential, q)

\* the joined-row column behind each RooR field that is copied from the row
RoorSource ==
    <<<<"FirstName", "Matched First Name">>, <<"LastName", "Matched Last Name">>,
      <<"Email", "Hyperlink">>, <<"PropertyAddress", "Parcel Full Address">>,
      <<"PropertyCity", "Parcel City">>, <<"PropertyState", "Parcel State">>,
      <<"PropertyZip", "Parcel Zip">>, <<"APN", "APN">>,
      <<"PropertyCounty", "Parcel County">>, <<"Acreage", "Calc Acreage">>>>

RoorSchema ==
    <<"FirstName", "LastName", "Email", "PropertyAddress", "PropertyCity",
      "PropertyState", "PropertyZip", "Phone1", "Phone2", "Phone3", "APN",
      "PropertyCounty", "Acreage">>

\* a value that is there: not null and not the empty string
Present(v) == v.t \notin {"nan", "none"} /\ v # S("")

\* C4: every RooR record has all the fields of the schema, and a field whose
\* source is missing in the joined row (no such column, or a null or empty
\* cell) is the empty string; no field is null.
C4_RoorNeverNull ==
    pc \in {"project", "done"} =>
        \A n \in 1..Len(roor_records) :
            LET rec == roor_records[n]
                row == MRow(RowOf("mobile", n))
            IN  /\ Keys(rec) = RoorSchema
                /\ \A f \in 1..Len(rec) : rec[f].v.t \notin {"nan", "none"}
                /\ \A m \in 1..Len(RoorSource) :
                      ~Present(Get(row, RoorSource[m][2], None))
                          => Field(rec, RoorSource[m][1]) = S("")

\* entry q of a phone list, the empty string beyond its length
Slot(list, q) == IF q <= Len(list) THEN S(list[q]) ELSE S("")

\* C7: RooR Phone1..Phone3 are the first three mobile numbers of the row and
\* ReadyMode Phone1..Phone4 its first four residential numbers, in ascending
\* phone-index order, empty strings beyond the list's length.
C7_PhoneSlots ==
    pc \in {"project", "done"} =>
        /\ \A n \in 1..Len(roor_records) :
              \A q \in 1..3 :
                  Field(roor_records[n], PhoneCol(q))
                      = Slot(phone_data[RowOf("mobile", n)].mobile, q)
        /\ \A n \in 1..Len(readymode_records) :
              \A q \in 1..4 :
                  Field(readymode_records[n], PhoneCol(q))
                      = Slot(phone_data[RowOf("residential", n)].residential, q)

\* C10: the Google Maps URL of every ReadyMode record is the URL of the
\* joined row's latitude and longitude when both are present and non-empty
\* and the empty string otherwise (34.05, -118.25 gives ...&q=34.05,-118.25).
C10_GoogleMapsURL ==
    pc \in {"project", "done"} =>
        \A n \in 1..Len(readymode_records) :
            LET row == MRow(RowOf("residential", n))
                lat == Get(row, "Latitude", None)
                lon == Get(row, "Longitude", None)
                url == Field(readymode_records[n], "Google Maps URL")
            IN  /\ Present(lat) /\ Present(lon) =>
                      url = S("http://maps.google.com/maps?z=16&t=m&q="
                              \o PyStr(lat) \o "," \o PyStr(lon))
                /\ ~(Present(lat) /\ Present(lon)) => url = S("")
                /\ lat = Lat1 /\ lon = Lon1 =>
                      url = S("http://maps.google.com/maps?z=16&t=m&q=34.05,-118.25")

====
